---- MODULE Spec2Model ----
(***************************************************************************)
(* Order placement, payment, cancellation and inventory handling of the   *)
(* 67 Street Food backend (Flask + SQLAlchemy over MySQL).                *)
(*                                                                         *)
(* The committed database is the variables product, inventory, orders,    *)
(* payments and deliveries.  Every customer request of order_routes.py    *)
(* runs in its own SQLAlchemy session (one per request): the session      *)
(* reads a snapshot of the database taken at its first SELECT (InnoDB     *)
(* REPEATABLE READ), keeps its changes to itself and writes them at       *)
(* db.session.commit() as absolute column values (the ORM emits           *)
(* UPDATE ... SET quantityInStock = <value computed in Python>).  Row     *)
(* locks only order the commits of two sessions; they never make a commit *)
(* fail, so a commit is one atomic step that overwrites the rows the      *)
(* session changed.                                                       *)
(*                                                                         *)
(* Money is counted in thousandths of a currency unit; a Numeric(10,2)    *)
(* column holds a multiple of 10.                                         *)
(***************************************************************************)
EXTENDS Integers, Sequences, FiniteSets, TLC

\* ---------------------------------------------------------------- bounds
\* rows the orders table may hold
MaxOrders == 1
\* rows the orders table may hold when orders follow one another
SeqOrders == 2
\* rows the orders table may hold when requests race
RaceOrders == 2
\* quantityInStock of a seeded inventory row
MaxStock == 2
\* largest quantityInStock followed
StockCap == 3
\* how far below zero quantityInStock is followed
MaxDebt == 1

\* ------------------------------------------------------------ identities
ProdIds == {1, 2, 3}
Sellers == {1, 2}
Customers == {1, 2}

Customer(i) == [type |-> "customer", id |-> i]
Seller(i) == [type |-> "seller", id |-> i]

\* models/order.py: the order_status enum
OrderStatuses ==
    {"Pending", "Confirmed", "Preparing", "Ready", "Delivered", "Completed", "Cancelled"}

\* ------------------------------------------------------------------ rows
NoProduct == [present |-> FALSE, sellerId |-> 0, isAvailable |-> FALSE, unitPrice |-> 0]
ProductRow(s, a, price) ==
    [present |-> TRUE, sellerId |-> s, isAvailable |-> a, unitPrice |-> price]

NoInventory == [present |-> FALSE, quantityInStock |-> 0]
InventoryRow(q) == [present |-> TRUE, quantityInStock |-> q]

NoOrder ==
    [customerId |-> 0, sellerId |-> 0, status |-> "Pending", type |-> "Pickup",
     totalAmount |-> 0, items |-> <<>>]

\* request payloads of POST /orders/create.  A line is one element of
\* 'items'; qkind tells what its 'quantity' is (an int, a string, or absent)
\* and pkind what its 'unitPrice' override is (absent, a number, or a string
\* float() rejects).  type is "none" when the payload has no 'type', and
\* status is "none" when it has no 'status'.
Line(p, q) ==
    [productId |-> p, quantity |-> q, qkind |-> "int", pkind |-> "none", unitPrice |-> 0]
NoData == [items |-> <<>>, type |-> "none", deliveryAddress |-> FALSE, status |-> "none"]

\* ---------------------------------------------------------------- money
Abs(x) == IF x < 0 THEN -x ELSE x

\* a value stored in a Numeric(10, 2) column: rounded to two decimals,
\* halves away from zero
Numeric2(x) ==
    LET r == ((Abs(x) + 5) \div 10) * 10
    IN  IF x < 0 THEN -r ELSE r

RECURSIVE SumSeq(_)
SumSeq(s) == IF s = <<>> THEN 0 ELSE Head(s) + SumSeq(Tail(s))

\* ------------------------------------------------------------- Inventory
\* variant: an update_stock that leaves the row as it is
Inventory_keep_stock(row, quantity_change) == row

\* Inventory.update_stock: quantityInStock += quantity_change
Inventory_update_stock(row, quantity_change) ==
    [row EXCEPT !.quantityInStock = row.quantityInStock + quantity_change]

\* Inventory.check_availability: quantityInStock >= quantity
Inventory_check_availability(row, quantity) ==
    row.quantityInStock >= quantity

\* ----------------------------------------------------------------- state
VARIABLES
    product,      \* product table: productId -> row
    inventory,    \* inventory table: productId -> row (at most one per product)
    orders,       \* orders table with its order_item rows; orderId = position
    payments,     \* payment table
    deliveries,   \* delivery table
    req,          \* the customer requests being served, one session each
    last,         \* the latest response: handler, status code, what it was
                  \* about; seq alternates, so every response changes it
    stock0        \* history: the inventory table of the initial state

vars == <<product, inventory, orders, payments, deliveries, req, last, stock0>>
db == <<product, inventory, orders, payments, deliveries>>

\* the database as a session sees it
Database ==
    [product |-> product, inventory |-> inventory, orders |-> orders,
     payments |-> payments]

NoDatabase ==
    [product |-> [p \in ProdIds |-> NoProduct],
     inventory |-> [p \in ProdIds |-> NoInventory],
     orders |-> <<>>, payments |-> <<>>]

\* a worker with no request, its session empty
Idle ==
    [pc |-> "idle", op |-> "none", user |-> Customer(0), data |-> NoData,
     orderId |-> 0, idx |-> 0, snap |-> NoDatabase, order |-> NoOrder,
     total_amount |-> 0, dirty |-> {}, flushed |-> FALSE]

\* variant: a failing exit that returns without db.session.rollback()
NoRollback(s) == s

\* variant: a session that reads the rows as committed at the moment it
\* asks (READ COMMITTED)
CommittedInventory(s) == inventory

\* the inventory rows as session s reads them: the snapshot of its
\* transaction (REPEATABLE READ) with its own pending changes
SessionInventory(s) == s.snap.inventory

\* db.session.rollback(): the session forgets its pending changes
Rollback(s) ==
    [s EXCEPT !.snap = NoDatabase, !.order = NoOrder, !.total_amount = 0,
              !.dirty = {}, !.flushed = FALSE]

\* does session s hold changes it has neither committed nor rolled back
Pending(s) == s.flushed \/ s.dirty # {}

\* what a seller handler was asked, kept with its response: the 'status' of
\* update_order_status; the product, the 'quantity_change' (given tells
\* whether the payload carries one) of seller_routes.update_inventory, and
\* whether that request wrote lastRestocked.  reread is history: a
\* get_order that follows, with no response in between, a get_order of the
\* same caller for the same order; so is stale: a cancel_order that
\* commits on an order another request cancelled after this one read it
NoDetail ==
    [status |-> "", productId |-> 0, given |-> FALSE, quantity_change |-> 0,
     lastRestocked |-> FALSE, reread |-> FALSE, stale |-> FALSE]

\* the body of a response that carries no order
NoBody ==
    [orderId |-> 0, customerId |-> 0, sellerId |-> 0, status |-> "", type |-> "",
     totalAmount |-> 0, items |-> <<>>,
     payment |-> [present |-> FALSE, amount |-> 0, status |-> ""],
     delivery |-> [present |-> FALSE, courseStatus |-> ""]]

\* the handler returns: the response is recorded, with what the session
\* still held at that moment, and the worker is free again (the request's
\* session is removed with the request)
RespondWith(r, code, error, s, detail) ==
    /\ req' = [req EXCEPT ![r] = Idle]
    /\ last' = [op |-> s.op, user |-> s.user, code |-> code, error |-> error,
                orderId |-> s.orderId, line |-> s.idx, pending |-> Pending(s),
                seq |-> 1 - last.seq, detail |-> detail, body |-> NoBody]

Respond(r, code, error, s) == RespondWith(r, code, error, s, NoDetail)

\* the handler goes on with session s
Continue(r, s) ==
    /\ req' = [req EXCEPT ![r] = s]
    /\ UNCHANGED last

\* a handler that runs from its first query to its response in one step
ReplyWith(op, user, code, error, orderId, detail, body) ==
    last' = [op |-> op, user |-> user, code |-> code, error |-> error,
             orderId |-> orderId, line |-> 0, pending |-> FALSE,
             seq |-> 1 - last.seq, detail |-> detail, body |-> body]

Reply(op, user, code, error, orderId) ==
    ReplyWith(op, user, code, error, orderId, NoDetail, NoBody)

\* ---------------------------------------------------------- create_order
\* variant: an order that takes the 'status' of the payload
StatusOfPayload(data) == IF data.status = "none" THEN "Pending" ELSE data.status

\* Order(...) is built without a status: the default of the column
InitialStatus(data) == "Pending"

\* variant: the order type when an omitted 'type' means Pickup
OrderTypePickup(data) == IF data.type = "none" THEN "Pickup" ELSE data.type

\* data.get('type', 'Delivery')
OrderType(data) == IF data.type = "none" THEN "Delivery" ELSE data.type

\* variant: the seller taken from the product of the last line
SellerOfLastLine(data) == product[data.items[Len(data.items)].productId].sellerId

\* first_product.sellerId: the seller of the product of the first line
SellerOfFirstLine(data) == product[data.items[1].productId].sellerId

\* variant: the price of a line when the override is not looked at
CatalogPrice(item, prod) == prod.unitPrice

\* item.get('unitPrice', product.unitPrice)
UnitPrice(item, prod) ==
    IF item.pkind = "num" THEN item.unitPrice ELSE prod.unitPrice

\* POST /orders/create up to the flush of the order header
CreateOrderBegin(r, user, data) ==
    /\ req[r].pc = "idle"
    /\ LET s == [Idle EXCEPT !.op = "create_order", !.user = user, !.data = data]
       IN  IF user.type # "customer"
             THEN Respond(r, 403, "Only customers can create orders", s)
           ELSE IF data.items = <<>>
             THEN Respond(r, 400, "Order items are required", s)
           ELSE IF \E i \in DOMAIN data.items : data.items[i].qkind = "missing"
             THEN Respond(r, 400, "Item missing quantity", s)
           ELSE IF ~product[data.items[1].productId].present
             THEN Respond(r, 404, "First product not found", s)
           ELSE Continue(r,
                  [s EXCEPT !.pc = "items", !.idx = 1, !.snap = Database,
                            !.flushed = TRUE,
                            !.order = [customerId |-> user.id,
                                       sellerId |-> SellerOfFirstLine(data),
                                       status |-> InitialStatus(data),
                                       type |-> OrderType(data),
                                       totalAmount |-> 0,
                                       items |-> <<>>]])
    /\ UNCHANGED <<db, stock0>>

\* one pass of the loop over data['items']
CreateOrderLine(r) ==
    /\ req[r].op = "create_order"
    /\ req[r].pc = "items"
    /\ LET s == req[r]
           item == s.data.items[s.idx]
           prod == s.snap.product[item.productId]
           inv == SessionInventory(s)[item.productId]
           unit_price == UnitPrice(item, prod)
           subtotal == unit_price * item.quantity
           order_item == [productId |-> item.productId, quantity |-> item.quantity,
                          subtotal |-> subtotal,
                          reserved |-> IF inv.present THEN item.quantity ELSE 0]
           is_last == s.idx = Len(s.data.items)
       IN  IF ~prod.present
             THEN Respond(r, 404, "Product not found", Rollback(s))
           ELSE IF ~prod.isAvailable
             THEN Respond(r, 400, "Product is not available", Rollback(s))
           ELSE IF inv.present /\ item.qkind = "str"
             \* int >= str raises TypeError: the generic handler
             THEN Respond(r, 500, "TypeError", Rollback(s))
           ELSE IF inv.present /\ ~Inventory_check_availability(inv, item.quantity)
             THEN Respond(r, 400, "Insufficient stock", Rollback(s))
           ELSE IF item.pkind = "bad"
             \* float() raises ValueError: the 'invalid token' handler
             THEN Respond(r, 401, "Invalid token format", s)
           ELSE IF item.qkind = "str"
             \* float * str raises TypeError: the generic handler
             THEN Respond(r, 500, "TypeError", Rollback(s))
           ELSE Continue(r,
                  [s EXCEPT !.idx = s.idx + 1,
                            !.pc = IF is_last THEN "finish" ELSE "items",
                            !.order.items = Append(s.order.items, order_item),
                            !.total_amount = s.total_amount + subtotal,
                            !.snap.inventory[item.productId] =
                                IF inv.present
                                  THEN Inventory_update_stock(inv, -item.quantity)
                                  ELSE inv,
                            !.dirty = IF inv.present
                                        THEN s.dirty \cup {item.productId}
                                        ELSE s.dirty])
    /\ UNCHANGED <<db, stock0>>

\* the rows a commit of session s leaves in the inventory table
CommitInventory(s) ==
    [p \in ProdIds |-> IF p \in s.dirty THEN s.snap.inventory[p] ELSE inventory[p]]

\* an order as its rows are stored: Numeric(10, 2) amounts
StoredOrder(o, total) ==
    [o EXCEPT !.totalAmount = Numeric2(total),
              !.items = [i \in DOMAIN o.items |->
                           [o.items[i] EXCEPT !.subtotal = Numeric2(o.items[i].subtotal)]]]

\* after the loop: the total, the delivery record, the commit
CreateOrderFinish(r) ==
    /\ req[r].op = "create_order"
    /\ req[r].pc = "finish"
    /\ LET s == req[r]
       IN  IF s.order.type = "Delivery" /\ ~s.data.deliveryAddress
             THEN /\ Respond(r, 400, "Delivery address is required", Rollback(s))
                  /\ UNCHANGED <<inventory, orders, deliveries>>
             ELSE /\ orders' = Append(orders, StoredOrder(s.order, s.total_amount))
                  /\ inventory' = CommitInventory(s)
                  /\ deliveries' =
                        IF s.order.type = "Delivery"
                          THEN Append(deliveries,
                                 [orderId |-> Len(orders) + 1, courseStatus |-> "Scheduled"])
                          ELSE deliveries
                  /\ Respond(r, 201, "", [Rollback(s) EXCEPT !.orderId = Len(orders) + 1])
    /\ UNCHANGED <<product, payments, stock0>>

\* ---------------------------------------------- order_routes.cancel_order
\* the stock cancel_order leaves in the session for the items of order o:
\* update_stock(item.quantity) for every item whose product has inventory
RECURSIVE RestoreInventory(_, _)
RestoreInventory(inv, items) ==
    IF items = <<>> THEN inv
    ELSE LET item == Head(items)
             row == inv[item.productId]
         IN  RestoreInventory(
               IF row.present
                 THEN [inv EXCEPT ![item.productId] =
                         Inventory_update_stock(row, item.quantity)]
                 ELSE inv,
               Tail(items))

\* variant: a cancel whose commit leaves the inventory rows out
RestoredNone(inv, items) == {}

\* the products of the items of an order whose inventory row exists in inv
Restored(inv, items) ==
    {items[i].productId : i \in {j \in DOMAIN items : inv[items[j].productId].present}}

\* variant: an order passes for the order of whoever asks
OwnedByAnyone(user, order_id) == TRUE

\* order.customerId == current_user['id']
OwnedBy(user, order_id) == orders[order_id].customerId = user.id

\* PUT /orders/<id>/cancel up to the status check
CancelOrderBegin(r, user, order_id) ==
    /\ req[r].pc = "idle"
    /\ LET s == [Idle EXCEPT !.op = "cancel_order", !.user = user, !.orderId = order_id]
       IN  IF user.type # "customer"
             THEN Respond(r, 403, "Only customers can cancel orders", s)
           ELSE IF order_id \notin DOMAIN orders
             THEN Respond(r, 404, "Order not found", s)
           ELSE IF ~OwnedBy(user, order_id)
             THEN Respond(r, 403, "You can only cancel your own orders", s)
           ELSE IF orders[order_id].status \in {"Delivered", "Cancelled"}
             THEN Respond(r, 400, "Cannot cancel order", s)
           ELSE Continue(r, [s EXCEPT !.pc = "cancel", !.snap = Database])
    /\ UNCHANGED <<db, stock0>>

\* the status change, the inventory restore and the commit
CancelOrderCommit(r) ==
    /\ req[r].op = "cancel_order"
    /\ req[r].pc = "cancel"
    /\ LET s == req[r]
           order == s.snap.orders[s.orderId]
           restored == Restored(SessionInventory(s), order.items)
           after == RestoreInventory(SessionInventory(s), order.items)
           done == [s EXCEPT !.snap.inventory = after, !.dirty = restored]
       IN  IF \E i \in DOMAIN order.items : ~s.snap.product[order.items[i].productId].present
             \* item.product is None: AttributeError, the generic handler
             THEN /\ Respond(r, 500, "AttributeError", Rollback(s))
                  /\ UNCHANGED <<orders, inventory>>
             ELSE /\ orders' = [orders EXCEPT ![s.orderId].status = "Cancelled"]
                  /\ inventory' = CommitInventory(done)
                  /\ RespondWith(r, 200, "", Rollback(s),
                                 [NoDetail EXCEPT !.stale =
                                    orders[s.orderId].status = "Cancelled"])
    /\ UNCHANGED <<product, payments, deliveries, stock0>>

\* ------------------------------------------- customer_routes.cancel_order
\* PUT /customer/orders/<id>/cancel
CustomerCancelOrder(user, order_id) ==
    /\ IF user.type # "customer"
         THEN Reply("customer_cancel_order", user, 404, "Customer profile not found", order_id) /\ UNCHANGED orders
       ELSE IF order_id \notin DOMAIN orders \/ orders[order_id].customerId # user.id
         THEN Reply("customer_cancel_order", user, 404, "Order not found", order_id) /\ UNCHANGED orders
       ELSE IF orders[order_id].status \notin {"Pending", "Confirmed"}
         THEN Reply("customer_cancel_order", user, 400, "Cannot cancel order", order_id) /\ UNCHANGED orders
       ELSE /\ orders' = [orders EXCEPT ![order_id].status = "Cancelled"]
            /\ Reply("customer_cancel_order", user, 200, "", order_id)
    /\ UNCHANGED <<product, inventory, payments, deliveries, req, stock0>>

\* ------------------------------------------------------- create_payment
\* variant: the payment table without the unique key on orderId
PaymentInsertUnchecked(order_id) == TRUE

\* Payment.orderId is unique: can a payment row for order_id be inserted
PaymentInsertAllowed(order_id) ==
    \A i \in DOMAIN payments : payments[i].orderId # order_id

\* variant: create_payment without the look at order.payment
Order_payment_Ignored(order_id) == FALSE

\* Order.payment: does the order have a payment row
Order_payment(order_id) ==
    \E i \in DOMAIN payments : payments[i].orderId = order_id

\* variant: a payment recorded with no amount
FreePayment(order_id, amount) ==
    [orderId |-> order_id, amount |-> 0, status |-> "Successful"]

\* variant: a payment recorded as not yet processed
PendingPayment(order_id, amount) ==
    [orderId |-> order_id, amount |-> amount, status |-> "Pending"]

\* Payment(orderId=..., amount=order.totalAmount, status='Successful')
NewPayment(order_id, amount) ==
    [orderId |-> order_id, amount |-> amount, status |-> "Successful"]

\* POST /orders/<id>/payment up to the validation of the payload;
\* has_method tells whether the payload carries 'paymentMethod'
CreatePaymentBegin(r, user, order_id, has_method) ==
    /\ req[r].pc = "idle"
    /\ LET s == [Idle EXCEPT !.op = "create_payment", !.user = user, !.orderId = order_id]
       IN  IF user.type # "customer"
             THEN Respond(r, 403, "Only customers can make payments", s)
           ELSE IF order_id \notin DOMAIN orders
             THEN Respond(r, 404, "Order not found", s)
           ELSE IF ~OwnedBy(user, order_id)
             THEN Respond(r, 403, "You can only pay for your own orders", s)
           ELSE IF Order_payment(order_id)
             THEN Respond(r, 400, "Payment already exists", s)
           ELSE IF ~has_method
             THEN Respond(r, 400, "Payment method is required", s)
           ELSE Continue(r, [s EXCEPT !.pc = "pay", !.snap = Database])
    /\ UNCHANGED <<db, stock0>>

\* the payment row, the status change and the commit
CreatePaymentCommit(r) ==
    /\ req[r].op = "create_payment"
    /\ req[r].pc = "pay"
    /\ LET s == req[r]
           order == s.snap.orders[s.orderId]
       IN  IF PaymentInsertAllowed(s.orderId)
             THEN /\ payments' = Append(payments, NewPayment(s.orderId, order.totalAmount))
                  /\ orders' = [orders EXCEPT ![s.orderId].status = "Confirmed"]
                  /\ Respond(r, 201, "", Rollback(s))
             \* duplicate key: IntegrityError, the generic handler
             ELSE /\ Respond(r, 500, "IntegrityError", Rollback(s))
                  /\ UNCHANGED <<orders, payments>>
    /\ UNCHANGED <<product, inventory, deliveries, stock0>>

\* ----------------------------------------- seller_routes.update_inventory
Max(a, b) == IF a >= b THEN a ELSE b

\* POST /seller/inventory/<id>; has_change tells whether the payload carries
\* a non-null 'quantity_change'
SellerUpdateInventory(user, product_id, has_change, quantity_change) ==
    /\ LET op == "seller_update_inventory"
           inv == inventory[product_id]
           sum == inv.quantityInStock + quantity_change
           asked == [NoDetail EXCEPT !.productId = product_id, !.given = has_change,
                                     !.quantity_change = quantity_change]
           \* lastRestocked is assigned when quantity_change > 0; a new row
           \* that is given None gets the default of the column, utcnow
           written == [asked EXCEPT !.lastRestocked =
                          quantity_change > 0 \/ ~inv.present]
       IN  IF user.type # "seller"
             THEN ReplyWith(op, user, 404, "Seller profile not found", 0, asked, NoBody)
                  /\ UNCHANGED inventory
           ELSE IF ~product[product_id].present \/ product[product_id].sellerId # user.id
             THEN ReplyWith(op, user, 404, "Product not found", 0, asked, NoBody)
                  /\ UNCHANGED inventory
           ELSE IF ~has_change
             THEN ReplyWith(op, user, 400, "quantity_change is required", 0, asked, NoBody)
                  /\ UNCHANGED inventory
           ELSE IF quantity_change = 0
             THEN ReplyWith(op, user, 400, "Quantity change cannot be zero", 0, asked, NoBody)
                  /\ UNCHANGED inventory
           ELSE /\ inventory' = [inventory EXCEPT ![product_id] =
                      IF inv.present
                        THEN [inv EXCEPT !.quantityInStock = IF sum < 0 THEN 0 ELSE sum]
                        ELSE InventoryRow(Max(0, quantity_change))]
                /\ ReplyWith(op, user, 200, "", 0, written, NoBody)
    /\ UNCHANGED <<product, orders, payments, deliveries, req, stock0>>

\* ---------------------------------------- product_routes.update_inventory
\* PUT /products/seller/<id>/inventory; field is the key of the payload that
\* carries the stock ("quantityChange", "quantityInStock" or "none")
ProductUpdateInventory(user, product_id, field, value) ==
    /\ LET op == "product_update_inventory"
           inv == inventory[product_id]
       IN  IF user.type # "seller"
             THEN Reply(op, user, 403, "Only sellers can update inventory", 0)
                  /\ UNCHANGED inventory
           ELSE IF ~product[product_id].present
             THEN Reply(op, user, 404, "Product not found", 0)
                  /\ UNCHANGED inventory
           ELSE IF product[product_id].sellerId # user.id
             THEN Reply(op, user, 403, "You can only update your own product inventory", 0)
                  /\ UNCHANGED inventory
           ELSE IF ~inv.present
             THEN Reply(op, user, 404, "Inventory not found for this product", 0)
                  /\ UNCHANGED inventory
           ELSE /\ inventory' = [inventory EXCEPT ![product_id] =
                      IF field = "quantityChange"
                        THEN Inventory_update_stock(inv, value)
                      ELSE IF field = "quantityInStock"
                        THEN [inv EXCEPT !.quantityInStock = value]
                      ELSE inv]
                /\ Reply(op, user, 200, "", 0)
    /\ UNCHANGED <<product, orders, payments, deliveries, req, stock0>>

\* ------------------------------------------------------- update_product
\* payloads of the product updates: fields is the set of keys present
ProductData(fields, a, price, q) ==
    [fields |-> fields, isAvailable |-> a, unitPrice |-> price, quantityInStock |-> q]

\* PUT /products/seller/<id>
ProductUpdateProduct(user, product_id, data) ==
    /\ LET op == "product_update_product"
           prod == product[product_id]
           inv == inventory[product_id]
           stock == inv.present /\ "quantityInStock" \in data.fields
       IN  IF user.type # "seller"
             THEN Reply(op, user, 403, "Only sellers can update products", 0)
                  /\ UNCHANGED <<product, inventory>>
           ELSE IF ~prod.present
             THEN Reply(op, user, 404, "Product not found", 0)
                  /\ UNCHANGED <<product, inventory>>
           ELSE IF prod.sellerId # user.id
             THEN Reply(op, user, 403, "You can only update your own products", 0)
                  /\ UNCHANGED <<product, inventory>>
           ELSE /\ product' = [product EXCEPT ![product_id] =
                      [prod EXCEPT
                         !.unitPrice = IF "unitPrice" \in data.fields
                                         THEN Numeric2(data.unitPrice) ELSE @,
                         !.isAvailable = IF "isAvailable" \in data.fields
                                           THEN data.isAvailable ELSE @]]
                /\ inventory' = IF stock
                                  THEN [inventory EXCEPT ![product_id].quantityInStock =
                                          data.quantityInStock]
                                  ELSE inventory
                /\ Reply(op, user, 200, "", 0)
    /\ UNCHANGED <<orders, payments, deliveries, req, stock0>>

\* PUT /seller/products/<id>
SellerUpdateProduct(user, product_id, data) ==
    /\ LET op == "seller_update_product"
           prod == product[product_id]
       IN  IF user.type # "seller"
             THEN Reply(op, user, 404, "Seller profile not found", 0) /\ UNCHANGED product
           ELSE IF ~prod.present \/ prod.sellerId # user.id
             THEN Reply(op, user, 404, "Product not found", 0) /\ UNCHANGED product
           ELSE /\ product' = [product EXCEPT ![product_id] =
                      [prod EXCEPT
                         !.unitPrice = IF "unitPrice" \in data.fields
                                         THEN Numeric2(data.unitPrice) ELSE @,
                         !.isAvailable = IF "isAvailable" \in data.fields
                                           THEN data.isAvailable ELSE @]]
                /\ Reply(op, user, 200, "", 0)
    /\ UNCHANGED <<inventory, orders, payments, deliveries, req, stock0>>

\* ------------------------------------------------------- create_product
\* the productId the next inserted product row gets
NextProductId ==
    1 + Cardinality({p \in ProdIds : product[p].present})

\* POST /seller/products; the payload always names the product
SellerCreateProduct(user, data) ==
    /\ LET op == "seller_create_product"
           id == NextProductId
       IN  IF user.type # "seller"
             THEN Reply(op, user, 404, "Seller profile not found", 0)
                  /\ UNCHANGED <<product, inventory>>
           ELSE IF "unitPrice" \notin data.fields \/ data.unitPrice = 0
             THEN Reply(op, user, 400, "Unit price is required", 0)
                  /\ UNCHANGED <<product, inventory>>
           ELSE /\ product' = [product EXCEPT ![id] =
                      ProductRow(user.id,
                                 "isAvailable" \in data.fields /\ data.isAvailable,
                                 Numeric2(data.unitPrice))]
                /\ inventory' = [inventory EXCEPT ![id] = InventoryRow(0)]
                /\ Reply(op, user, 201, "", 0)
    /\ UNCHANGED <<orders, payments, deliveries, req, stock0>>

\* POST /products/seller/create; the payload always names the product
ProductCreateProduct(user, data) ==
    /\ LET op == "product_create_product"
           id == NextProductId
       IN  IF user.type # "seller"
             THEN Reply(op, user, 403, "Only sellers can create products", 0)
                  /\ UNCHANGED <<product, inventory>>
           ELSE IF "unitPrice" \notin data.fields
             THEN Reply(op, user, 400, "unitPrice is required", 0)
                  /\ UNCHANGED <<product, inventory>>
           ELSE /\ product' = [product EXCEPT ![id] =
                      ProductRow(user.id,
                                 "isAvailable" \in data.fields => data.isAvailable,
                                 Numeric2(data.unitPrice))]
                /\ inventory' = [inventory EXCEPT ![id] =
                      InventoryRow(IF "quantityInStock" \in data.fields
                                     THEN data.quantityInStock ELSE 0)]
                /\ Reply(op, user, 201, "", 0)
    /\ UNCHANGED <<orders, payments, deliveries, req, stock0>>

\* --------------------------------------- seller_routes.update_order_status
\* variant: an allow-list with one more status
valid_statuses_wider == OrderStatuses \cup {"Refunded"}

\* update_order_status: valid_statuses
valid_statuses == OrderStatuses

\* PUT /seller/orders/<id>/status
SellerUpdateOrderStatus(user, order_id, new_status) ==
    /\ LET op == "update_order_status"
           asked == [NoDetail EXCEPT !.status = new_status]
       IN  IF user.type # "seller"
             THEN ReplyWith(op, user, 404, "Seller profile not found", order_id, asked, NoBody)
                  /\ UNCHANGED orders
           ELSE IF order_id \notin DOMAIN orders \/ orders[order_id].sellerId # user.id
             THEN ReplyWith(op, user, 404, "Order not found", order_id, asked, NoBody)
                  /\ UNCHANGED orders
           ELSE IF new_status \notin valid_statuses
             THEN ReplyWith(op, user, 400, "Invalid status", order_id, asked, NoBody)
                  /\ UNCHANGED orders
           ELSE /\ orders' = [orders EXCEPT ![order_id].status = new_status]
                /\ ReplyWith(op, user, 200, "", order_id, asked, NoBody)
    /\ UNCHANGED <<product, inventory, payments, deliveries, req, stock0>>

\* ------------------------------------------------------------- get_order
\* variant: a body that carries something that changes with every response
Order_to_dict_stamped(order_id) ==
    [NoBody EXCEPT !.orderId = order_id, !.totalAmount = last.seq]

\* Order.to_dict with OrderItem.to_dict, Payment.to_dict, Delivery.to_dict
Order_to_dict(order_id) ==
    LET o == orders[order_id]
        pay == {i \in DOMAIN payments : payments[i].orderId = order_id}
        del == {i \in DOMAIN deliveries : deliveries[i].orderId = order_id}
    IN  [orderId |-> order_id, customerId |-> o.customerId, sellerId |-> o.sellerId,
         status |-> o.status, type |-> o.type, totalAmount |-> o.totalAmount,
         items |-> [i \in DOMAIN o.items |->
                      [productId |-> o.items[i].productId,
                       quantity |-> o.items[i].quantity,
                       subtotal |-> o.items[i].subtotal,
                       unitPrice |-> IF o.items[i].productId \in ProdIds
                                       THEN product[o.items[i].productId].unitPrice
                                       ELSE 0]],
         payment |-> IF pay = {} THEN NoBody.payment
                     ELSE LET i == CHOOSE i \in pay : TRUE
                          IN  [present |-> TRUE, amount |-> payments[i].amount,
                               status |-> payments[i].status],
         delivery |-> IF del = {} THEN NoBody.delivery
                      ELSE LET i == CHOOSE i \in del : TRUE
                           IN  [present |-> TRUE,
                                courseStatus |-> deliveries[i].courseStatus]]

\* GET /orders/<id>
GetOrder(user, order_id) ==
    /\ LET op == "get_order"
           again == [NoDetail EXCEPT !.reread = /\ last.op = op
                                               /\ last.user = user
                                               /\ last.orderId = order_id]
       IN  IF order_id \notin DOMAIN orders
             THEN ReplyWith(op, user, 404, "Order not found", order_id, again, NoBody)
           ELSE IF user.type = "customer" /\ orders[order_id].customerId # user.id
             THEN ReplyWith(op, user, 403, "You can only view your own orders", order_id,
                            again, NoBody)
           ELSE ReplyWith(op, user, 200, "", order_id, again, Order_to_dict(order_id))
    /\ UNCHANGED <<db, req, stock0>>

\* ------------------------------------------------------- delete_product
\* variant: a product that no order item is known to refer to
NoOrderItems(product_id) == {}

\* Product.order_items: the order items that refer to the product, each as
\* <<order, position>>
Product_order_items(product_id) ==
    {oi \in UNION {{<<o, i>> : i \in DOMAIN orders[o].items} : o \in DOMAIN orders} :
        orders[oi[1]].items[oi[2]].productId = product_id}

\* variant: OrderItem.productId declared nullable
Nullable == TRUE

\* OrderItem.productId is declared nullable=False
OrderItem_productId_nullable == FALSE

\* db.session.delete(product) and the commit.  The session sets the
\* productId of the order items of the product to NULL (the relationship
\* has no delete cascade), which the column refuses: IntegrityError, the
\* generic handler.  The inventory row goes with the product (cascade).
DeleteProductRow(op, user, product_id) ==
    LET items == Product_order_items(product_id)
    IN  IF items # {} /\ ~OrderItem_productId_nullable
          THEN /\ Reply(op, user, 500, "IntegrityError", 0)
               /\ UNCHANGED <<product, inventory, orders>>
          ELSE /\ product' = [product EXCEPT ![product_id] = NoProduct]
               /\ inventory' = [inventory EXCEPT ![product_id] = NoInventory]
               /\ orders' = [o \in DOMAIN orders |->
                               [orders[o] EXCEPT !.items =
                                  [i \in DOMAIN orders[o].items |->
                                     IF <<o, i>> \in items
                                       THEN [orders[o].items[i] EXCEPT !.productId = 0]
                                       ELSE orders[o].items[i]]]]
               /\ Reply(op, user, 200, "", 0)

\* DELETE /seller/products/<id>
SellerDeleteProduct(user, product_id) ==
    /\ LET op == "seller_delete_product"
       IN  IF user.type # "seller"
             THEN Reply(op, user, 404, "Seller profile not found", 0)
                  /\ UNCHANGED <<product, inventory, orders>>
           ELSE IF ~product[product_id].present \/ product[product_id].sellerId # user.id
             THEN Reply(op, user, 404, "Product not found", 0)
                  /\ UNCHANGED <<product, inventory, orders>>
           ELSE DeleteProductRow(op, user, product_id)
    /\ UNCHANGED <<payments, deliveries, req, stock0>>

\* DELETE /products/seller/<id>
ProductDeleteProduct(user, product_id) ==
    /\ LET op == "product_delete_product"
       IN  IF user.type # "seller"
             THEN Reply(op, user, 403, "Only sellers can delete products", 0)
                  /\ UNCHANGED <<product, inventory, orders>>
           ELSE IF ~product[product_id].present
             THEN Reply(op, user, 404, "Product not found", 0)
                  /\ UNCHANGED <<product, inventory, orders>>
           ELSE IF product[product_id].sellerId # user.id
             THEN Reply(op, user, 403, "You can only delete your own products", 0)
                  /\ UNCHANGED <<product, inventory, orders>>
           ELSE DeleteProductRow(op, user, product_id)
    /\ UNCHANGED <<payments, deliveries, req, stock0>>

\* ================================================================ system
NoResponse ==
    [op |-> "none", user |-> Customer(0), code |-> 0, error |-> "", orderId |-> 0,
     line |-> 0, pending |-> FALSE, seq |-> 0, detail |-> NoDetail, body |-> NoBody]

\* the database the service starts on: product 1 of seller 1 and product 2
\* of seller 2 are on sale, product 3 is not created yet; product 1 may be
\* a row without an inventory record
InitOn(workers) ==
    /\ product = [p \in ProdIds |->
                    IF p = 1 THEN ProductRow(1, TRUE, 1000)
                    ELSE IF p = 2 THEN ProductRow(2, TRUE, 2500)
                    ELSE NoProduct]
    /\ \E first \in {NoInventory, InventoryRow(MaxStock)} :
          inventory = [p \in ProdIds |->
                         IF p = 1 THEN first
                         ELSE IF p = 2 THEN InventoryRow(MaxStock)
                         ELSE NoInventory]
    /\ orders = <<>>
    /\ payments = <<>>
    /\ deliveries = <<>>
    /\ req = [r \in workers |-> Idle]
    /\ last = NoResponse
    /\ stock0 = inventory

\* ---- bounds of the exploration
\* create_order requests that have flushed their order header and have not
\* returned yet
OrdersInFlight ==
    {r \in DOMAIN req : req[r].op = "create_order" /\ req[r].pc \in {"items", "finish"}}

RoomForOrder(max) == Len(orders) + Cardinality(OrdersInFlight) < max

StockFollowed ==
    \A p \in ProdIds :
        /\ inventory[p].quantityInStock >= -MaxDebt
        /\ inventory[p].quantityInStock <= StockCap

\* no request is being served
Quiet == \A r \in DOMAIN req : req[r].pc = "idle"

\* ---- inputs
Delivery(items) == [NoData EXCEPT !.items = items, !.deliveryAddress = TRUE]
Pickup(items) == [NoData EXCEPT !.items = items, !.type = "Pickup"]
NoAddress(items) == [NoData EXCEPT !.items = items, !.type = "Delivery"]
WithStatus(data, st) == [data EXCEPT !.status = st]

BadPrice(l) == [l EXCEPT !.pkind = "bad"]
Priced(l, price) == [l EXCEPT !.pkind = "num", !.unitPrice = price]
BadQuantity(l) == [l EXCEPT !.qkind = "str"]
NoQuantity(l) == [l EXCEPT !.qkind = "missing"]

Callers == {Customer(1), Customer(2), Seller(1)}
Staff == {Seller(1), Seller(2), Customer(1)}
OrderIds == {1, 2}

\* ---- the handlers with their inputs
PlaceOrder(max, callers, requests) ==
    \E r \in DOMAIN req, user \in callers, data \in requests :
        RoomForOrder(max) /\ CreateOrderBegin(r, user, data)
PlaceOrderLine == \E r \in DOMAIN req : CreateOrderLine(r)
PlaceOrderFinish == \E r \in DOMAIN req : CreateOrderFinish(r) /\ StockFollowed'

Cancel(callers) ==
    \E r \in DOMAIN req, user \in callers, o \in OrderIds : CancelOrderBegin(r, user, o)
CancelCommit == \E r \in DOMAIN req : CancelOrderCommit(r) /\ StockFollowed'

Pay(callers, methods) ==
    \E r \in DOMAIN req, user \in callers, o \in OrderIds, m \in methods :
        CreatePaymentBegin(r, user, o, m)
PayCommit == \E r \in DOMAIN req : CreatePaymentCommit(r)

CustomerCancel ==
    \E user \in Callers, o \in OrderIds : Quiet /\ CustomerCancelOrder(user, o)

SetStatus(statuses) ==
    \E user \in Staff, o \in OrderIds, st \in statuses :
        Quiet /\ SellerUpdateOrderStatus(user, o, st)

Restock(products, changes) ==
    \E user \in Staff, p \in products, c \in changes, h \in BOOLEAN :
        Quiet /\ SellerUpdateInventory(user, p, h, c) /\ StockFollowed'

AdjustStock(products, fields, values) ==
    \E user \in Staff, p \in products, f \in fields, v \in values :
        Quiet /\ ProductUpdateInventory(user, p, f, v) /\ StockFollowed'

EditProduct(products, payloads) ==
    \E user \in Staff, p \in products, data \in payloads :
        Quiet /\ ProductUpdateProduct(user, p, data) /\ StockFollowed'

SellerEditProduct(products, payloads) ==
    \E user \in Staff, p \in products, data \in payloads :
        Quiet /\ SellerUpdateProduct(user, p, data)

AddProduct(payloads) ==
    \E user \in Staff, data \in payloads :
        /\ Quiet
        /\ NextProductId \in ProdIds
        /\ ProductCreateProduct(user, data)
        /\ StockFollowed'

SellerAddProduct(payloads) ==
    \E user \in Staff, data \in payloads :
        /\ Quiet
        /\ NextProductId \in ProdIds
        /\ SellerCreateProduct(user, data)

ReadOrder(callers) ==
    \E user \in callers, o \in OrderIds : Quiet /\ GetOrder(user, o)

SellerRemoveProduct(products) ==
    \E user \in Staff, p \in products : Quiet /\ SellerDeleteProduct(user, p)

RemoveProduct(products) ==
    \E user \in Staff, p \in products : Quiet /\ ProductDeleteProduct(user, p)

\* ---- Spec: the life of an order, requests served one after the other
LifeRequests == { Pickup(<<Line(1, 2), Line(2, 1)>>) }

Next ==
    \/ PlaceOrder(MaxOrders, {Customer(1), Seller(1)}, LifeRequests)
    \/ PlaceOrderLine
    \/ PlaceOrderFinish
    \/ Cancel(Callers)
    \/ CancelCommit
    \/ Pay(Callers, BOOLEAN)
    \/ PayCommit
    \/ CustomerCancel
    \/ SetStatus(OrderStatuses \cup {"Refunded"})

Init == InitOn({1})
Spec == Init /\ [][Next]_vars

\* ---- SpecOrder: order placement over the shapes a payload can have
OrderRequests ==
    { Pickup(<<>>),
      Pickup(<<Line(1, 1)>>),
      Delivery(<<Line(1, 2), Line(2, 1)>>),
      Pickup(<<Line(1, 1), Line(1, 2)>>),
      Pickup(<<Line(1, 1), Line(3, 1)>>),
      Pickup(<<Line(3, 1)>>),
      Pickup(<<Line(2, 1), BadPrice(Line(1, 1))>>),
      Pickup(<<Line(2, 1), BadQuantity(Line(1, 1))>>),
      Pickup(<<NoQuantity(Line(1, 1))>>),
      Pickup(<<Priced(Line(2, 1), 334), Priced(Line(1, 1), 334)>>),
      Pickup(<<Line(1, -1)>>),
      Pickup(<<Line(1, 1), Line(1, 1)>>),
      WithStatus(Pickup(<<Line(2, 2)>>), "Delivered"),
      NoAddress(<<Line(1, 1)>>) }

NextOrder ==
    \/ PlaceOrder(SeqOrders, {Customer(1), Seller(1)}, OrderRequests)
    \/ PlaceOrderLine
    \/ PlaceOrderFinish
    \/ SellerEditProduct({1, 2}, {ProductData({"isAvailable"}, a, 0, 0) : a \in BOOLEAN})

SpecOrder == Init /\ [][NextOrder]_vars

\* ---- SpecStock: every handler that writes quantityInStock
NextStock ==
    \/ PlaceOrder(MaxOrders, {Customer(1)}, LifeRequests)
    \/ PlaceOrderLine
    \/ PlaceOrderFinish
    \/ Cancel({Customer(1)})
    \/ CancelCommit
    \/ Restock({1, 2}, {-1, 0, 1})
    \/ AdjustStock({1, 2}, {"quantityChange", "quantityInStock", "none"}, {-1, 1})
    \/ EditProduct({1, 2}, {ProductData({"quantityInStock"}, TRUE, 0, q) : q \in {-1, 1}})
    \/ AddProduct({ProductData({"unitPrice", "quantityInStock"}, TRUE, 1500, q) : q \in {-1, 1}}
                     \cup {ProductData({}, TRUE, 0, 0)})
    \/ SellerAddProduct({ProductData({"unitPrice"}, TRUE, 1500, 0), ProductData({}, TRUE, 0, 0)})

SpecStock == Init /\ [][NextStock]_vars

\* ---- SpecRace: two workers serve requests at the same time
RaceRequests == { Pickup(<<Line(1, 1)>>), Pickup(<<Line(1, 2)>>) }

NextRace ==
    \/ PlaceOrder(RaceOrders, {Customer(1)}, RaceRequests)
    \/ PlaceOrderLine
    \/ PlaceOrderFinish
    \/ Pay({Customer(1)}, {TRUE})
    \/ PayCommit

InitRace == InitOn({1, 2})
SpecRace == InitRace /\ [][NextRace]_vars

\* ---- SpecCatalog: an order next to the handlers that edit, restock and
\* delete the products it refers to, and the handler that reads it back
NextCatalog ==
    \/ PlaceOrder(MaxOrders, {Customer(1)}, LifeRequests)
    \/ PlaceOrderLine
    \/ PlaceOrderFinish
    \/ Cancel({Customer(1)})
    \/ CancelCommit
    \/ Pay({Customer(1)}, {TRUE})
    \/ PayCommit
    \/ SetStatus({"Delivered"})
    \/ Restock({2}, {1})
    \/ AdjustStock({2}, {"quantityChange"}, {-1})
    \/ SellerEditProduct({1}, {ProductData({"unitPrice"}, TRUE, 1500, 0),
                               ProductData({"isAvailable"}, FALSE, 0, 0)})
    \/ SellerRemoveProduct({1, 2})
    \/ RemoveProduct({1, 2})
    \/ ReadOrder(Callers)

SpecCatalog == Init /\ [][NextCatalog]_vars

\* ---- SpecCancel: two workers serve cancel requests at the same time
NextCancel ==
    \/ PlaceOrder(MaxOrders, {Customer(1)}, LifeRequests)
    \/ PlaceOrderLine
    \/ PlaceOrderFinish
    \/ Cancel({Customer(1)})
    \/ CancelCommit

SpecCancel == InitRace /\ [][NextCancel]_vars

\* ================================================================ claims
\* the quantity of product p on the items of an order
RECURSIVE QuantityOf(_, _)
QuantityOf(items, p) ==
    IF items = <<>> THEN 0
    ELSE (IF Head(items).productId = p THEN Head(items).quantity ELSE 0)
         + QuantityOf(Tail(items), p)

\* the quantity of product p that create_order took from the stock for the
\* items of an order
RECURSIVE ReservedOf(_, _)
ReservedOf(items, p) ==
    IF items = <<>> THEN 0
    ELSE (IF Head(items).productId = p THEN Head(items).reserved ELSE 0)
         + ReservedOf(Tail(items), p)

\* the quantity of product p on all committed orders
RECURSIVE OrderedOf(_, _)
OrderedOf(os, p) ==
    IF os = <<>> THEN 0 ELSE QuantityOf(Head(os).items, p) + OrderedOf(Tail(os), p)

PaymentsOf(o) == {i \in DOMAIN payments : payments[i].orderId = o}

\* C1: no oversell.  For a product with an inventory record and initial
\* stock S, with no restock and no cancellation (SpecRace has neither), the
\* quantities of the committed orders for that product never sum to more
\* than S, however the create_order requests interleave.
C1_NoOversell ==
    \A p \in ProdIds :
        stock0[p].present => OrderedOf(orders, p) <= stock0[p].quantityInStock

\* C2: quantityInStock is never negative in a committed state.
C2_StockNeverNegative ==
    \A p \in ProdIds : inventory[p].present => inventory[p].quantityInStock >= 0

\* the errors of create_order for one line: product not found, product not
\* available, insufficient stock
LineErrors == {"Product not found", "Product is not available", "Insufficient stock"}

\* the inventory table as session s found it, before its own decrements
StockBefore(s) ==
    [p \in ProdIds |->
        [s.snap.inventory[p] EXCEPT
            !.quantityInStock = @ + ReservedOf(s.order.items, p)]]

\* C3: when a line of create_order fails validation, the request returns
\* with its session rolled back and the committed state is the state the
\* request started on: no order, no order item, no inventory decrement of
\* the lines before it is persisted.
C3_LineFailureIsAtomic ==
    [][\A r \in DOMAIN req :
          ( /\ req[r].op = "create_order"
            /\ req[r].pc = "items"
            /\ req'[r].pc = "idle"
            /\ last'.error \in LineErrors )
          => /\ ~last'.pending
             /\ db' = db
             /\ orders' = req[r].snap.orders
             /\ product' = req[r].snap.product
             /\ inventory' = StockBefore(req[r])]_vars

\* C3 happens: line 2 of a request failed after line 1 had taken stock
C3_Witness ==
    /\ last.op = "create_order"
    /\ last.error = "Insufficient stock"
    /\ last.line = 2
    /\ orders = <<>>
    /\ inventory = stock0

C5_CancelInvertsReservation ==
    [][\A r \in DOMAIN req :
          ( /\ req[r].op = "cancel_order"
            /\ req[r].pc = "cancel"
            /\ req'[r].pc = "idle"
            /\ last'.code = 200 )
          => /\ orders'[req[r].orderId].status = "Cancelled"
             /\ \A p \in ProdIds :
                   inventory'[p].quantityInStock =
                     inventory[p].quantityInStock
                       + ReservedOf(orders[req[r].orderId].items, p)]_vars

\* C6: every step that moves an order into Cancelled credits the stock of
\* its items back: the stock of each product that has an inventory record
\* grows by the quantity the order holds of it.
C6_CancelledCreditsStock ==
    [][\A o \in DOMAIN orders :
          (orders[o].status # "Cancelled" /\ orders'[o].status = "Cancelled")
          => \A p \in ProdIds :
                inventory[p].present =>
                  inventory'[p].quantityInStock =
                    inventory[p].quantityInStock + QuantityOf(orders[o].items, p)]_vars

\* C7: a cancel of either customer endpoint succeeds only from Pending or
\* Confirmed.
C7_CancelOnlyFromPendingOrConfirmed ==
    [][\A o \in DOMAIN orders :
          ( /\ last'.op \in {"cancel_order", "customer_cancel_order"}
            /\ last'.code = 200
            /\ last'.orderId = o
            /\ orders'[o] # orders[o] )
          => orders[o].status \in {"Pending", "Confirmed"}]_vars

TerminalStatuses == {"Delivered", "Completed", "Cancelled"}

\* C8: Delivered, Completed and Cancelled are terminal: once an order has
\* one of these statuses, no step changes its status again.
C8_TerminalStatusesStay ==
    [][\A o \in DOMAIN orders :
          orders[o].status \in TerminalStatuses => orders'[o].status = orders[o].status]_vars

\* C9: an order never has more than one payment row, however the
\* create_payment requests for it interleave.
C9_AtMostOnePayment ==
    \A o \in OrderIds : Cardinality(PaymentsOf(o)) <= 1

\* C9 happens: two create_payment requests passed the look at
\* order.payment, one committed and the other ran into the unique key
C9_Witness ==
    /\ last.op = "create_payment"
    /\ last.error = "IntegrityError"
    /\ Cardinality(PaymentsOf(last.orderId)) = 1

\* C10: create_payment by the customer of an order that has a payment fails
\* with the payment-already-exists error and changes nothing in the
\* database, whatever the status of the order.
C10_SecondPaymentRejected ==
    [][\A o \in DOMAIN orders :
          ( /\ PaymentsOf(o) # {}
            /\ last' # last
            /\ last'.op = "create_payment"
            /\ last'.orderId = o
            /\ last'.user = Customer(orders[o].customerId) )
          => /\ last'.code = 400
             /\ last'.error = "Payment already exists"
             /\ db' = db]_vars

\* C10 happens: a second payment was refused on an order that is no longer
\* Confirmed
C10_Witness ==
    /\ last.op = "create_payment"
    /\ last.error = "Payment already exists"
    /\ last.orderId \in DOMAIN orders
    /\ orders[last.orderId].status = "Delivered"
    /\ Cardinality(PaymentsOf(last.orderId)) = 1

\* the sum of the stored subtotals of the items of an order
RECURSIVE SubtotalsOf(_)
SubtotalsOf(items) ==
    IF items = <<>> THEN 0 ELSE Head(items).subtotal + SubtotalsOf(Tail(items))

\* C11: a create_payment that succeeds found the order without a payment,
\* adds exactly one payment row, with status Successful, for that order and
\* sets the order to Confirmed in the same commit; a create_payment that
\* does not succeed persists neither.
C11_PaymentConfirmsInOneCommit ==
    [][\A r \in DOMAIN req :
          (req[r].op = "create_payment" /\ req[r].pc = "pay" /\ req'[r].pc = "idle")
          => LET o == req[r].orderId
             IN  IF last'.code = 201
                   THEN /\ PaymentsOf(o) = {}
                        /\ Len(payments') = Len(payments) + 1
                        /\ SubSeq(payments', 1, Len(payments)) = payments
                        /\ payments'[Len(payments')].orderId = o
                        /\ payments'[Len(payments')].status = "Successful"
                        /\ orders' = [orders EXCEPT ![o].status = "Confirmed"]
                   ELSE db' = db]_vars

\* C11 happens: a payment was recorded and its order is Confirmed
C11_Witness ==
    /\ last.op = "create_payment"
    /\ last.code = 201
    /\ orders[last.orderId].status = "Confirmed"
    /\ \E i \in PaymentsOf(last.orderId) : payments[i].status = "Successful"

\* C12: the totalAmount of every committed order equals the sum of the
\* stored subtotals of its items.
C12_TotalIsSumOfSubtotals ==
    \A o \in DOMAIN orders : orders[o].totalAmount = SubtotalsOf(orders[o].items)

\* C13: a line with a quantity that is not positive never produces an
\* order or an order item, and never raises the stock (where nothing but
\* create_order writes the stock, as in SpecOrder).
C13_NonPositiveQuantityRejected ==
    /\ \A o \in DOMAIN orders :
          \A i \in DOMAIN orders[o].items : orders[o].items[i].quantity > 0
    /\ \A p \in ProdIds : inventory[p].quantityInStock <= stock0[p].quantityInStock

\* C14: create_order never succeeds for a line whose product has no
\* inventory record.
C14_NoInventoryFailsClosed ==
    [][\A r \in DOMAIN req :
          ( /\ req[r].op = "create_order"
            /\ req[r].pc = "finish"
            /\ req'[r].pc = "idle"
            /\ last'.code = 201 )
          => \A i \in DOMAIN req[r].order.items :
                inventory[req[r].order.items[i].productId].present]_vars

\* C15: order_routes.cancel_order commits the status Cancelled together with
\* the stock of every item whose product has an inventory record, or
\* commits nothing: a cancel that does not answer 200 leaves every table as
\* it was.
C15_CancelIsAtomic ==
    [][/\ \A r \in DOMAIN req :
            (req[r].op = "cancel_order" /\ req[r].pc = "cancel" /\ req'[r].pc = "idle")
            => LET o == req[r].orderId
               IN  IF last'.code = 200
                     THEN /\ orders' = [orders EXCEPT ![o].status = "Cancelled"]
                          /\ \A p \in ProdIds :
                                inventory'[p] =
                                  IF inventory[p].present
                                    THEN [inventory[p] EXCEPT !.quantityInStock =
                                            @ + QuantityOf(orders[o].items, p)]
                                    ELSE inventory[p]
                     ELSE db' = db
       /\ (last'.op = "cancel_order" /\ last'.seq # last.seq /\ last'.code # 200)
            => db' = db]_vars

\* C15 happens: an order with stock taken for both its lines was cancelled
\* and the stock is back where it started
C15_Witness ==
    /\ last.op = "cancel_order"
    /\ last.code = 200
    /\ orders[last.orderId].status = "Cancelled"
    /\ \A i \in DOMAIN orders[last.orderId].items :
          orders[last.orderId].items[i].reserved > 0
    /\ inventory = stock0

\* C16: cancel_order and create_payment asked by anyone but the customer of
\* the order answer 403 and change no table, and so does create_order asked
\* by a caller who is not a customer.
C16_OwnershipEnforced ==
    [][/\ \A o \in DOMAIN orders :
            ( /\ last'.seq # last.seq
              /\ last'.op \in {"cancel_order", "create_payment"}
              /\ last'.orderId = o
              /\ last'.user # Customer(orders[o].customerId) )
            => (last'.code = 403 /\ db' = db)
       /\ ( /\ last'.seq # last.seq
            /\ last'.op = "create_order"
            /\ last'.user.type # "customer" )
            => (last'.code = 403 /\ db' = db)]_vars

\* C16 happens: another customer tried to pay an order and was refused
C16_Witness ==
    /\ last.op = "create_payment"
    /\ last.code = 403
    /\ last.orderId \in DOMAIN orders
    /\ last.user.type = "customer"
    /\ last.user.id # orders[last.orderId].customerId
    /\ payments = <<>>

\* C17: a create_order that succeeds takes from the stock of every product
\* that has an inventory record exactly the quantity ordered of it and
\* leaves every other row alone; a create_order that fails, for
\* insufficient stock or anything else, leaves the stock as it was.
C17_OrderTakesExactlyItsQuantity ==
    [][\A r \in DOMAIN req :
          (req[r].op = "create_order" /\ req[r].pc # "idle" /\ req'[r].pc = "idle")
          => IF last'.code = 201
               THEN \A p \in ProdIds :
                      inventory'[p] =
                        IF inventory[p].present
                          THEN [inventory[p] EXCEPT !.quantityInStock =
                                  @ - QuantityOf(orders'[Len(orders')].items, p)]
                          ELSE inventory[p]
               ELSE inventory' = inventory]_vars

\* C17 happens: an order took stock of product 1, and the order that
\* followed failed for insufficient stock and left what remained
C17_Witness ==
    /\ last.op = "create_order"
    /\ last.error = "Insufficient stock"
    /\ Len(orders) = 1
    /\ stock0[1].present
    /\ QuantityOf(orders[1].items, 1) > 0
    /\ inventory[1].quantityInStock =
          stock0[1].quantityInStock - QuantityOf(orders[1].items, 1)

\* the price a line asks for: its override when it carries one, the
\* catalog price of the product otherwise
PriceAsked(line, prod) ==
    IF line.pkind = "num" THEN line.unitPrice ELSE prod.unitPrice

\* C18 as the specification states it: the stored subtotal of every line of
\* a created order equals unitPrice x quantity, the unitPrice being the
\* override of the line when there is one and the catalog price otherwise.
C18_SubtotalIsPriceTimesQuantity ==
    [][\A r \in DOMAIN req :
          ( /\ req[r].op = "create_order"
            /\ req[r].pc = "finish"
            /\ req'[r].pc = "idle"
            /\ last'.code = 201 )
          => \A i \in DOMAIN req[r].data.items :
                LET line == req[r].data.items[i]
                IN  orders'[Len(orders')].items[i].subtotal =
                      PriceAsked(line, product[line.productId]) * line.quantity]_vars

\* C18: the stored subtotal of every line of a created order equals
\* unitPrice x quantity rounded to the two decimals of the column, the
\* unitPrice being the override of the line when there is one and the
\* catalog price otherwise.
C18_SubtotalIsRoundedPriceTimesQuantity ==
    [][\A r \in DOMAIN req :
          ( /\ req[r].op = "create_order"
            /\ req[r].pc = "finish"
            /\ req'[r].pc = "idle"
            /\ last'.code = 201 )
          => /\ Len(orders'[Len(orders')].items) = Len(req[r].data.items)
             /\ \A i \in DOMAIN req[r].data.items :
                   LET line == req[r].data.items[i]
                   IN  orders'[Len(orders')].items[i].subtotal =
                         Numeric2(PriceAsked(line, product[line.productId]) * line.quantity)]_vars

\* C18 happens: an order was created with a line whose price is an override
C18_Witness ==
    /\ last.op = "create_order"
    /\ last.code = 201
    /\ \E i \in DOMAIN orders[last.orderId].items :
          LET item == orders[last.orderId].items[i]
          IN  item.subtotal # product[item.productId].unitPrice * item.quantity

\* C19: a create_order of type Delivery, which is also the type of a
\* payload without 'type', succeeds only with a delivery address and then
\* stores exactly one delivery row, Scheduled, for the order; without an
\* address it answers 400 and nothing is persisted.  A Pickup order gets no
\* delivery row.
C19_DeliveryNeedsAddress ==
    [][\A r \in DOMAIN req :
          (req[r].op = "create_order" /\ req[r].pc = "finish" /\ req'[r].pc = "idle")
          => LET data == req[r].data
                 rows == {i \in DOMAIN deliveries' :
                             deliveries'[i].orderId = Len(orders) + 1}
             IN  IF data.type \in {"none", "Delivery"}
                   THEN IF data.deliveryAddress
                          THEN /\ last'.code = 201
                               /\ orders'[Len(orders')].type = "Delivery"
                               /\ Cardinality(rows) = 1
                               /\ \A i \in rows : deliveries'[i].courseStatus = "Scheduled"
                          ELSE /\ last'.code = 400
                               /\ ~last'.pending
                               /\ db' = db
                   ELSE /\ last'.code = 201
                        /\ orders'[Len(orders')].type = "Pickup"
                        /\ deliveries' = deliveries]_vars

\* C19 happens: a payload without 'type' and with an address became a
\* Delivery order with its delivery row
C19_Witness ==
    /\ last.op = "create_order"
    /\ last.code = 201
    /\ orders[last.orderId].type = "Delivery"
    /\ \E i \in DOMAIN deliveries :
          deliveries[i] = [orderId |-> last.orderId, courseStatus |-> "Scheduled"]

\* C20: the sellerId of a created order is the sellerId of the product of
\* the first line of the request, which exists; a request whose first
\* product does not exist answers 404 and creates nothing.
C20_SellerIsFirstLinesSeller ==
    [][/\ \A r \in DOMAIN req :
            ( /\ req[r].op = "create_order"
              /\ req[r].pc = "finish"
              /\ req'[r].pc = "idle"
              /\ last'.code = 201 )
            => LET first == product[req[r].data.items[1].productId]
               IN  first.present /\ orders'[Len(orders')].sellerId = first.sellerId
       /\ (last'.seq # last.seq /\ last'.error = "First product not found")
            => (last'.code = 404 /\ db' = db)]_vars

\* C20 happens: an order with lines of two sellers was created
C20_Witness ==
    /\ last.op = "create_order"
    /\ last.code = 201
    /\ \E i \in DOMAIN orders[last.orderId].items :
          product[orders[last.orderId].items[i].productId].sellerId
            # orders[last.orderId].sellerId

\* C21: every order that create_order commits has status Pending when it
\* is created, whatever the payload carries, a 'status' of its own included.
C21_NewOrderIsPending ==
    [][\A r \in DOMAIN req :
          ( /\ req[r].op = "create_order"
            /\ req[r].pc = "finish"
            /\ req'[r].pc = "idle"
            /\ last'.code = 201 )
          => /\ Len(orders') = Len(orders) + 1
             /\ SubSeq(orders', 1, Len(orders)) = orders
             /\ orders'[Len(orders')].status = "Pending"]_vars

\* C21 happens: the order of the payload that asks for status Delivered
\* was created, and is Pending
C21_Witness ==
    /\ last.op = "create_order"
    /\ last.code = 201
    /\ Len(orders[last.orderId].items) = 1
    /\ orders[last.orderId].items[1].productId = 2
    /\ orders[last.orderId].items[1].quantity = 2
    /\ orders[last.orderId].status = "Pending"

\* C22: seller_routes.update_order_status asked by the seller of the order
\* sets the status to the value asked, whatever the status was, when the
\* value is one of the seven of the list, and answers 400 and changes
\* nothing for any other value; asked by anyone else it answers 404 and
\* changes nothing.
C22_SellerStatusIsPlainOverwrite ==
    [][(last'.seq # last.seq /\ last'.op = "update_order_status")
       => LET o == last'.orderId
              st == last'.detail.status
          IN  IF o \in DOMAIN orders /\ last'.user = Seller(orders[o].sellerId)
                THEN IF st \in {"Pending", "Confirmed", "Preparing", "Ready",
                                "Delivered", "Completed", "Cancelled"}
                       THEN /\ last'.code = 200
                            /\ orders' = [orders EXCEPT ![o].status = st]
                            /\ UNCHANGED <<product, inventory, payments, deliveries>>
                       ELSE last'.code = 400 /\ db' = db
                ELSE last'.code = 404 /\ db' = db]_vars

\* C22 happens: the seller put back to Pending an order that a payment
\* had confirmed
C22_Witness ==
    /\ last.op = "update_order_status"
    /\ last.code = 200
    /\ last.detail.status = "Pending"
    /\ orders[last.orderId].status = "Pending"
    /\ PaymentsOf(last.orderId) # {}

\* C23: the items of an order never change once the order is committed:
\* no step of cancel_order, create_payment, update_order_status, the
\* inventory handlers, the product handlers or delete_product changes the
\* productId, the quantity or the subtotal of an item, or adds or removes
\* an item.
C23_OrderItemsAreImmutable ==
    [][\A o \in DOMAIN orders :
          /\ o \in DOMAIN orders'
          /\ Len(orders'[o].items) = Len(orders[o].items)
          /\ \A i \in DOMAIN orders[o].items :
                /\ orders'[o].items[i].productId = orders[o].items[i].productId
                /\ orders'[o].items[i].quantity = orders[o].items[i].quantity
                /\ orders'[o].items[i].subtotal = orders[o].items[i].subtotal]_vars

\* C23 happens: the seller changed the price of a product after an order
\* took two of it, and the item keeps the subtotal of the old price
C23_Witness ==
    /\ last.op = "seller_update_product"
    /\ last.code = 200
    /\ product[1].unitPrice = 1500
    /\ Len(orders) = 1
    /\ orders[1].items[1].productId = 1
    /\ orders[1].items[1].quantity = 2
    /\ orders[1].items[1].subtotal = 2000

\* C24: a product that an order item refers to is never deleted by either
\* delete_product: the productId of every order item is the id of a
\* product row, in every state, and a delete_product of such a product
\* changes no table.
C24_ReferencedProductStays ==
    [][/\ \A o \in DOMAIN orders' : \A i \in DOMAIN orders'[o].items :
            /\ orders'[o].items[i].productId \in ProdIds
            /\ product'[orders'[o].items[i].productId].present
       /\ \A p \in ProdIds :
            ( /\ last'.seq # last.seq
              /\ last'.op \in {"seller_delete_product", "product_delete_product"}
              /\ \E o \in DOMAIN orders : \E i \in DOMAIN orders[o].items :
                    orders[o].items[i].productId = p )
            => product'[p] = product[p]]_vars

\* C24 happens: the seller of a product that an order refers to asked to
\* delete it and the delete failed
C24_Witness ==
    /\ last.op \in {"seller_delete_product", "product_delete_product"}
    /\ last.code = 500
    /\ Len(orders) = 1
    /\ \A i \in DOMAIN orders[1].items : product[orders[1].items[i].productId].present

C26_StockReleasedAtMostOnce ==
    \A p \in ProdIds :
        inventory[p].present =>
            inventory[p].quantityInStock <= stock0[p].quantityInStock

\* C29: the amount of every payment is the totalAmount of its order, in
\* every state.
C29_PaymentAmountIsOrderTotal ==
    \A i \in DOMAIN payments :
        /\ payments[i].orderId \in DOMAIN orders
        /\ payments[i].amount = orders[payments[i].orderId].totalAmount

\* C29 happens: an order with a total is paid, and its status has moved on
C29_Witness ==
    /\ Len(payments) = 1
    /\ payments[1].amount > 0
    /\ payments[1].amount = orders[payments[1].orderId].totalAmount
    /\ orders[payments[1].orderId].status = "Delivered"

\* C30: seller_routes.update_inventory with a quantity_change d that is
\* not zero, on a product of the seller who asks, sets the stock to
\* max(0, old stock + d), creating the record with max(0, d) when there is
\* none, and writes lastRestocked only when d > 0; with d = 0 or without a
\* quantity_change it answers 400 and changes nothing; on a product of
\* another seller it changes nothing.
C30_SellerRestockSetsStock ==
    [][(last'.seq # last.seq /\ last'.op = "seller_update_inventory")
       => LET p == last'.detail.productId
              d == last'.detail.quantity_change
              old == IF inventory[p].present THEN inventory[p].quantityInStock ELSE 0
          IN  IF /\ last'.user.type = "seller"
                 /\ product[p].present
                 /\ product[p].sellerId = last'.user.id
                THEN IF last'.detail.given /\ d # 0
                       THEN /\ last'.code = 200
                            /\ inventory'[p].present
                            /\ inventory'[p].quantityInStock = Max(0, old + d)
                            /\ \A q \in ProdIds \ {p} : inventory'[q] = inventory[q]
                            /\ last'.detail.lastRestocked <=> d > 0
                       ELSE /\ last'.code = 400
                            /\ db' = db
                            /\ ~last'.detail.lastRestocked
                ELSE db' = db /\ ~last'.detail.lastRestocked]_vars

\* C28: the stock check of create_order is cumulative over the lines of
\* one request: a request succeeds only if, for every product that has an
\* inventory record, the quantities of all its lines for the product sum to
\* no more than the stock of the product; a request that fails the check
\* at any line leaves no table changed and nothing pending.
C28_StockCheckIsCumulative ==
    [][\A r \in DOMAIN req :
          (req[r].op = "create_order" /\ req[r].pc # "idle" /\ req'[r].pc = "idle")
          => /\ last'.code = 201
                => \A p \in ProdIds :
                      inventory[p].present =>
                        QuantityOf(orders'[Len(orders')].items, p)
                          <= inventory[p].quantityInStock
             /\ last'.error = "Insufficient stock"
                => (~last'.pending /\ db' = db)]_vars

\* C28 happens: a request with two lines on product 1, each within the
\* stock and together beyond it, failed at its second line, and the stock
\* is what it was
C28_Witness ==
    /\ last.op = "create_order"
    /\ last.error = "Insufficient stock"
    /\ last.line = 2
    /\ orders = <<>>
    /\ inventory[1].present
    /\ inventory = stock0

\* C27: two order_routes.cancel_order requests for the same order that both
\* read its status before either commits give the stock of each item back
\* once in total: when the order, the only one placed, is Cancelled, the
\* stock of every product is its stock before the cancel (the initial
\* stock less what the order took) plus the quantity of the order's items.
C27_ConcurrentCancelsCreditOnce ==
    (Len(orders) = 1 /\ orders[1].status = "Cancelled")
    => \A p \in ProdIds :
          inventory[p].present =>
            inventory[p].quantityInStock =
              (stock0[p].quantityInStock - ReservedOf(orders[1].items, p))
                + QuantityOf(orders[1].items, p)

\* C27 happens: both cancels of the order were answered 200, the second
\* after the first had committed, and the order held stock of a product
C27_Witness ==
    /\ last.op = "cancel_order"
    /\ last.code = 200
    /\ last.detail.stale
    /\ Quiet
    /\ orders[last.orderId].status = "Cancelled"
    /\ \E p \in ProdIds : ReservedOf(orders[last.orderId].items, p) > 0

====
